---- MODULE Spec2Model ----
(***************************************************************************)
(* Rail decision-support scheduler (src/main.py, src/schemas.py).          *)
(*                                                                         *)
(* Instants are integers: minutes after a reference instant t0.  A speed   *)
(* is an integer count of half km/h, so that a speed below 1 km/h can be   *)
(* written; a length is an integer count of km.  An Optional value is a    *)
(* sequence of length 0 (None) or 1.  A dict is a function whose DOMAIN is *)
(* its key set.  A wire timestamp is a sequence of characters.             *)
(***************************************************************************)
EXTENDS Integers, Sequences, FiniteSets, TLC

\* ------------------------------------------------------------------ bounds
MaxTrains == 2        \* trains in a scenario
MaxEntries == 3       \* entries of overrides["fixed_enters"]
MaxClock == 1         \* readings of the wall clock
MaxLengthKm == 12     \* section lengths given to the run-time estimator

\* ------------------------------------------------------------- basic helpers
Max(a, b) == IF a >= b THEN a ELSE b
Min(a, b) == IF a <= b THEN a ELSE b
None == << >>
Some(v) == << v >>
Kmh(n) == 2 * n       \* n km/h in the model's speed unit

\* ------------------------------------------------------------ program data
SAFE_HEADWAY_MIN == 5

Section(id, length_km, single_track, max_speed_kmh) ==
    [id |-> id, length_km |-> length_km, single_track |-> single_track,
     max_speed_kmh |-> max_speed_kmh]

\* Section validation of schemas.py: length_km >= 0 and max_speed_kmh >= 10.
SectionValid(d) == d.length_km >= 0 /\ d.max_speed_kmh >= Kmh(10)

\* The default sections seeded by get_domain_sections.
DefaultSections ==
    << Section("S1", 10, TRUE, Kmh(110)),
       Section("S2", 18, TRUE, Kmh(120)),
       Section("S3", 12, TRUE, Kmh(90)) >>

\* A stored "section" collection: the seeded defaults S1 and S2, a double-track
\* section added later, and a document that fails Section validation.
StoredSections ==
    << Section("S1", 10, TRUE, Kmh(110)),
       Section("S2", 18, TRUE, Kmh(120)),
       Section("D4", 7, FALSE, Kmh(60)),
       Section("S3", 0 - 1, TRUE, Kmh(90)) >>

\* ------------------------------------------------- compute_run_time_minutes
\* `train.max_speed_kmh or section.max_speed_kmh`: None and 0 are falsy.
OrElse(opt, dflt) == IF opt = None \/ opt[1] = 0 THEN dflt ELSE opt[1]

compute_run_time_minutes(section, train) ==
    LET speed == Min(section.max_speed_kmh,
                     OrElse(train.max_speed_kmh, section.max_speed_kmh))
        \* hours * 60 = length_km * 60 / max(speed, 1), truncated by int()
        minutes == (section.length_km * 60 * Kmh(1)) \div Max(speed, Kmh(1))
    IN  Max(1, minutes)

\* ---------------------------------------------------- parse_fixed_overrides
Digits == [c \in {"0", "1", "2", "3", "4", "5", "6", "7", "8", "9"} |->
             CASE c = "0" -> 0 [] c = "1" -> 1 [] c = "2" -> 2 [] c = "3" -> 3
               [] c = "4" -> 4 [] c = "5" -> 5 [] c = "6" -> 6 [] c = "7" -> 7
               [] c = "8" -> 8 [] c = "9" -> 9]

\* datetime.fromisoformat on the minute field of a timestamp: two digits.
IsIsoFormat(s) == Len(s) = 2 /\ \A i \in 1..2 : s[i] \in DOMAIN Digits
FromIsoFormat(s) == 10 * Digits[s[1]] + Digits[s[2]]

\* f"{train_id}::{section_id}"
Key(train_id, section_id) == train_id \o "::" \o section_id

\* An entry raises (KeyError, ValueError) when a field is missing or the
\* timestamp does not parse.
EntryRaises(entry) ==
    \/ "train_id" \notin DOMAIN entry
    \/ "section_id" \notin DOMAIN entry
    \/ "enter_time" \notin DOMAIN entry
    \/ ~IsIsoFormat(entry.enter_time)

Put(dict, k, v) == [x \in DOMAIN dict \cup {k} |-> IF x = k THEN v ELSE dict[x]]
EmptyDict == [x \in {} |-> 0]

\* The loop of lines 48-50 from entry i on; the try block encloses the whole
\* loop, so the first entry that raises ends it.
RECURSIVE FixedFrom(_, _, _)
FixedFrom(entries, i, fixed) ==
    IF i > Len(entries) THEN fixed
    ELSE IF EntryRaises(entries[i]) THEN fixed
    ELSE FixedFrom(entries, i + 1,
                   Put(fixed, Key(entries[i].train_id, entries[i].section_id),
                       FromIsoFormat(entries[i].enter_time)))

parse_fixed_overrides(overrides) ==
    IF "fixed_enters" \in DOMAIN overrides
    THEN FixedFrom(overrides.fixed_enters, 1, EmptyDict)
    ELSE EmptyDict

\* ------------------------------------------------------ get_domain_sections
\* Lines 122-130: a stored document that fails validation is skipped.
RECURSIVE Normalize(_)
Normalize(docs) ==
    IF docs = << >> THEN << >>
    ELSE IF SectionValid(Head(docs)) THEN << Head(docs) >> \o Normalize(Tail(docs))
    ELSE Normalize(Tail(docs))

get_domain_sections(existing) ==
    IF existing = << >> THEN DefaultSections ELSE Normalize(existing)

\* The writes of lines 115-119 on an empty collection: every create_document
\* either stores its section or raises, and a raise is swallowed.
RECURSIVE SubSeqs(_)
SubSeqs(s) ==
    IF s = << >> THEN { << >> }
    ELSE LET rest == SubSeqs(Tail(s))
         IN  rest \cup { << Head(s) >> \o r : r \in rest }

SeedOutcomes(existing) ==
    IF existing = << >> THEN SubSeqs(DefaultSections) ELSE { existing }

\* {s.id: s for s in sections}: a later section replaces an earlier one.
RECURSIVE IndexFrom(_, _, _)
IndexFrom(sections, i, map) ==
    IF i > Len(sections) THEN map
    ELSE IndexFrom(sections, i + 1, Put(map, sections[i].id, sections[i]))

IndexSections(sections) == IndexFrom(sections, 1, EmptyDict)

\* Bug variant: an id missing from the directory gets a made-up section.
SectionsGetLenient(map, sec_id) ==
    IF sec_id \in DOMAIN map THEN Some(map[sec_id])
    ELSE Some(Section(sec_id, 0, TRUE, Kmh(120)))

\* sections_map.get(sec_id)
SectionsGet(map, sec_id) == IF sec_id \in DOMAIN map THEN Some(map[sec_id]) ELSE None

\* ------------------------------------------------------------- sorted(...)
\* Bug variant: key=lambda t: -t.priority, no tie-break on departure.
BeforePriorityOnly(t, u) == t.priority > u.priority

\* key=lambda t: (-t.priority, t.planned_departure); t goes before u
Before(t, u) ==
    \/ t.priority > u.priority
    \/ t.priority = u.priority /\ t.planned_departure < u.planned_departure

\* Stable insertion of t into a sorted sequence: after every element that does
\* not come after it.
RECURSIVE Insert(_, _)
Insert(t, sorted) ==
    IF sorted = << >> THEN << t >>
    ELSE IF Before(t, Head(sorted)) THEN << t >> \o sorted
    ELSE << Head(sorted) >> \o Insert(t, Tail(sorted))

RECURSIVE SortFrom(_, _, _)
SortFrom(trains, i, sorted) ==
    IF i > Len(trains) THEN sorted
    ELSE SortFrom(trains, i + 1, Insert(trains[i], sorted))

SortTrains(trains) == SortFrom(trains, 1, << >>)

\* ------------------------------------------------------------ one route step
\* Bug variant: the test compares with prev_exit, without the headway.
EnterTimeNoBuffer(sec, sec_id, candidate, last) ==
    IF sec.single_track /\ sec_id \in DOMAIN last /\ candidate < last[sec_id]
    THEN last[sec_id] + SAFE_HEADWAY_MIN
    ELSE candidate

\* Bug variant: the test on section.single_track is missing.
EnterTimeAllSections(sec, sec_id, candidate, last) ==
    IF sec_id \in DOMAIN last /\ candidate < last[sec_id] + SAFE_HEADWAY_MIN
    THEN last[sec_id] + SAFE_HEADWAY_MIN
    ELSE candidate

\* Bug variant: no headway shift at all.
EnterTimeNoHeadway(sec, sec_id, candidate, last) == candidate

\* Lines 83-86: the headway rule.
EnterTime(sec, sec_id, candidate, last) ==
    IF sec.single_track /\ sec_id \in DOMAIN last
       /\ candidate < last[sec_id] + SAFE_HEADWAY_MIN
    THEN last[sec_id] + SAFE_HEADWAY_MIN
    ELSE candidate

\* Bug variant: the override is only a lower bound next to current_time.
CandidateEnterNotBeforeNow(fixed, tr, sec_id, now) ==
    IF Key(tr.id, sec_id) \in DOMAIN fixed
    THEN Max(fixed[Key(tr.id, sec_id)], now)
    ELSE now

\* Line 80: fixed_enters.get(key, current_time)
CandidateEnter(fixed, tr, sec_id, now) ==
    IF Key(tr.id, sec_id) \in DOMAIN fixed THEN fixed[Key(tr.id, sec_id)] ELSE now

\* Bug variant: exit_time is taken from the candidate, before the headway shift.
ScheduleLegExitFromCandidate(sec, sec_id, tr, fixed, now, last) ==
    LET run_min == compute_run_time_minutes(sec, tr)
        candidate == IF Key(tr.id, sec_id) \in DOMAIN fixed
                     THEN fixed[Key(tr.id, sec_id)] ELSE now
        enter_time == IF sec.single_track /\ sec_id \in DOMAIN last
                         /\ candidate < last[sec_id] + SAFE_HEADWAY_MIN
                      THEN last[sec_id] + SAFE_HEADWAY_MIN ELSE candidate
    IN  [train_id |-> tr.id, section_id |-> sec_id,
         enter_time |-> enter_time, exit_time |-> candidate + run_min]

\* Lines 76-90: the leg of train tr on section sec.
ScheduleLeg(sec, sec_id, tr, fixed, now, last) ==
    LET run_min == compute_run_time_minutes(sec, tr)
        enter_time == EnterTime(sec, sec_id, CandidateEnter(fixed, tr, sec_id, now), last)
    IN  [train_id |-> tr.id, section_id |-> sec_id,
         enter_time |-> enter_time, exit_time |-> enter_time + run_min]

\* ---------------------------------------------------------------------- KPIs
\* Lines 97-101.
LastSections(trains) ==
    LET ids == { trains[i].id : i \in 1..Len(trains) }
        last(id) == CHOOSE i \in 1..Len(trains) :
                       /\ trains[i].id = id
                       /\ \A j \in 1..Len(trains) : trains[j].id = id => j <= i
    IN  [id \in ids |-> IF trains[last(id)].route = << >> THEN None
                        ELSE Some(trains[last(id)].route[Len(trains[last(id)].route)])]

\* Bug variant: counts the legs on a final section, not the distinct trains.
ThroughputCountsLegs(trains, legs) ==
    LET last_sections == LastSections(trains)
    IN  Cardinality({ k \in 1..Len(legs) :
           /\ legs[k].train_id \in DOMAIN last_sections
           /\ last_sections[legs[k].train_id] = Some(legs[k].section_id) })

Throughput(trains, legs) ==
    LET last_sections == LastSections(trains)
        finished_trains ==
            { legs[k].train_id : k \in { k \in 1..Len(legs) :
                  /\ legs[k].train_id \in DOMAIN last_sections
                  /\ last_sections[legs[k].train_id] = Some(legs[k].section_id) } }
    IN  Cardinality(finished_trains)

\* ------------------------------------------------------------------- inputs
Calls == {1, 2}                      \* request handlers
TrainIds == << "A", "B", "C" >>
Priorities == {5, 8}
Departures == {0, 20}
\* (route, max_speed_kmh) of a train
Routes == { << << >>, None >>, << << "S1" >>, None >>, << << "S1", "S2" >>, None >>,
            << << "S2", "S1" >>, None >>, << << "S1", "S1" >>, None >>,
            << << "D4", "S1" >>, None >>, << << "S1", "S9" >>, None >>,
            << << "S1", "S2" >>, Some(Kmh(60)) >> }
Clock == 0..MaxClock                 \* readings of datetime.utcnow()

Train(id, priority, max_speed_kmh, planned_departure, route) ==
    [id |-> id, priority |-> priority, max_speed_kmh |-> max_speed_kmh,
     planned_departure |-> planned_departure, route |-> route]

Entry(train_id, section_id, enter_time) ==
    [train_id |-> train_id, section_id |-> section_id, enter_time |-> enter_time]

FixedEnters(entries) == [fixed_enters |-> entries]

\* Scenario.overrides of the scheduling runs.
ScenarioOverrides ==
    { EmptyDict,
      FixedEnters(<< Entry("A", "S1", << "3", "0" >>) >>),
      FixedEnters(<< Entry("A", "S2", << "0", "0" >>) >>),
      FixedEnters(<< Entry("B", "S1", << "0", "7" >>) >>),
      FixedEnters(<< Entry("A", "S1", << "3", "0" >>), Entry("B", "S1", << "0", "0" >>) >>),
      FixedEnters(<< Entry("B", "S2", << "3", "x" >>), Entry("A", "S1", << "3", "0" >>) >>) }

\* (priority, planned_departure, (route, max_speed_kmh)) of the k-th train; the
\* trains after the second are drawn from a smaller set.
TrainChoices(k) ==
    IF k <= 2 THEN Priorities \X Departures \X Routes
    ELSE Priorities \X {0} \X { << << "S1" >>, None >> }

RECURSIVE TrainLists(_)
TrainLists(n) ==
    IF n = 0 THEN { << >> }
    ELSE { Append(q, Train(TrainIds[n], ch[1], ch[3][2], ch[2], ch[3][1])) :
             q \in TrainLists(n - 1), ch \in TrainChoices(n) }

Scenarios ==
    { [id |-> "sc", trains |-> trains, overrides |-> overrides] :
        trains \in UNION { TrainLists(n) : n \in 1..MaxTrains },
        overrides \in ScenarioOverrides }

\* -------------------------------------------------------------------- state
VARIABLES
    section_docs,    \* the stored "section" collection
    request,         \* request[c]: the Scenario of call c
    pc,              \* pc[c]: "idle", "loop", "done" or "failed"
    sections_map, trains_sorted, fixed_enters, legs, last_exit,
    ti,              \* ti[c]: position of tr in trains_sorted (0 before the loop)
    ri,              \* ri[c]: sections of tr.route already walked
    current_time,
    returned,        \* returned[c]: the Schedule returned, or None
    raised,          \* raised[c]: the HTTPException raised, or None
    whatif,          \* whatif[c]: the delay of a WhatIfRequest, None for optimize
    audit_docs,      \* the stored "auditevent" collection
    arg, ret         \* argument and result of a function applied on its own

locals == << sections_map, trains_sorted, fixed_enters, legs, last_exit, ti, ri,
             current_time >>
vars == << section_docs, request, pc, locals, returned, raised, whatif, audit_docs,
          arg, ret >>

InitCalls ==
    /\ pc = [c \in Calls |-> "idle"]
    /\ sections_map = [c \in Calls |-> EmptyDict]
    /\ trains_sorted = [c \in Calls |-> << >>]
    /\ fixed_enters = [c \in Calls |-> EmptyDict]
    /\ legs = [c \in Calls |-> << >>]
    /\ last_exit = [c \in Calls |-> EmptyDict]
    /\ ti = [c \in Calls |-> 0]
    /\ ri = [c \in Calls |-> 0]
    /\ current_time = [c \in Calls |-> 0]
    /\ returned = [c \in Calls |-> None]
    /\ raised = [c \in Calls |-> None]
    /\ whatif = [c \in Calls |-> None]
    /\ audit_docs = << >>

Init ==
    /\ section_docs \in { << >>, StoredSections }
    /\ \E sc \in Scenarios : request = [c \in Calls |-> sc]
    /\ InitCalls
    /\ arg = None /\ ret = None

\* ------------------------------------------------ generate_feasible_schedule
\* Bug variant: one process-wide table, which the other call has written to.
NewLastExitShared(c) == IF c = 1 THEN last_exit[2] ELSE last_exit[1]

\* Line 65: the table of last exits a call starts with.
NewLastExit(c) == EmptyDict

\* Bug variant: scenario.trains.sort(key=...) orders the caller's list.
TrainsAfterSortInPlace(trains) == SortTrains(trains)

\* Line 61: sorted() builds a new list and leaves scenario.trains as it is.
TrainsAfterSorted(trains) == trains

\* Lines 58-67.
Begin(c) ==
    /\ pc[c] = "idle"
    /\ request' = [request EXCEPT ![c].trains = TrainsAfterSorted(request[c].trains)]
    /\ section_docs' \in SeedOutcomes(section_docs)
    /\ sections_map' =
          [sections_map EXCEPT ![c] = IndexSections(get_domain_sections(section_docs))]
    /\ trains_sorted' = [trains_sorted EXCEPT ![c] = SortTrains(request[c].trains)]
    /\ legs' = [legs EXCEPT ![c] = << >>]
    /\ last_exit' = [last_exit EXCEPT ![c] = NewLastExit(c)]
    /\ fixed_enters' = [fixed_enters EXCEPT ![c] = parse_fixed_overrides(request[c].overrides)]
    /\ pc' = [pc EXCEPT ![c] = "loop"]
    /\ UNCHANGED << ti, ri, current_time, returned, raised, whatif, audit_docs, arg, ret >>

\* The inner loop has walked the whole route of the current train.
\* Bug variant: the walk of a route stops one section early.
RouteDoneEarly(c) ==
    IF ti[c] = 0 THEN TRUE ELSE ri[c] >= Len(trains_sorted[c][ti[c]].route) - 1

\* Line 71: the route of tr is exhausted (or no train was taken yet).
RouteDone(c) == IF ti[c] = 0 THEN TRUE ELSE ri[c] = Len(trains_sorted[c][ti[c]].route)

\* Lines 69-70.
NextTrain(c) ==
    /\ pc[c] = "loop" /\ RouteDone(c) /\ ti[c] < Len(trains_sorted[c])
    /\ ti' = [ti EXCEPT ![c] = ti[c] + 1]
    /\ ri' = [ri EXCEPT ![c] = 0]
    /\ current_time' =
          [current_time EXCEPT ![c] = trains_sorted[c][ti[c] + 1].planned_departure]
    /\ UNCHANGED << section_docs, request, pc, sections_map, trains_sorted, fixed_enters,
                    legs, last_exit, returned, raised, whatif, audit_docs, arg, ret >>

\* Lines 71-92, the section is in the directory.
Leg(c) ==
    /\ pc[c] = "loop" /\ ~RouteDone(c)
    /\ LET tr == trains_sorted[c][ti[c]]
           sec_id == tr.route[ri[c] + 1]
           sec == SectionsGet(sections_map[c], sec_id)
       IN  /\ sec # None
           /\ LET leg == ScheduleLeg(sec[1], sec_id, tr, fixed_enters[c],
                                     current_time[c], last_exit[c])
              IN  /\ legs' = [legs EXCEPT ![c] = Append(legs[c], leg)]
                  /\ last_exit' = [last_exit EXCEPT ![c] = Put(last_exit[c], sec_id, leg.exit_time)]
                  /\ current_time' = [current_time EXCEPT ![c] = leg.exit_time]
    /\ ri' = [ri EXCEPT ![c] = ri[c] + 1]
    /\ UNCHANGED << section_docs, request, pc, sections_map, trains_sorted, fixed_enters,
                    ti, returned, raised, whatif, audit_docs, arg, ret >>

\* Lines 72-74, the section is not in the directory.
UnknownSection(c) ==
    /\ pc[c] = "loop" /\ ~RouteDone(c)
    /\ LET sec_id == trains_sorted[c][ti[c]].route[ri[c] + 1]
       IN  /\ SectionsGet(sections_map[c], sec_id) = None
           /\ raised' = [raised EXCEPT ![c] =
                           Some([status_code |-> 400, detail |-> "Unknown section " \o sec_id])]
    /\ pc' = [pc EXCEPT ![c] = "failed"]
    /\ UNCHANGED << section_docs, request, locals, returned, whatif, audit_docs, arg, ret >>

\* The AuditEvent of optimize (line 146) or of what_if (line 169).
AuditEvent(c) ==
    IF whatif[c] = None
    THEN [action |-> "optimize", payload |-> [scenario_id |-> request[c].id]]
    ELSE [action |-> "what_if",
          payload |-> [train |-> whatif[c][1].delay_train_id,
                       delay |-> whatif[c][1].delay_minutes]]

\* Bug variant: a create_document that raises ends the request without a schedule.
AfterAuditPropagates(sched, stored) == IF stored THEN Some(sched) ELSE None

\* Lines 145-149 and 168-172: `except Exception: pass`; the response carries
\* the schedule whether or not the audit event was stored.
AfterAudit(sched, stored) == Some(sched)

\* Lines 94-103, then the audit write and the response of the endpoint;
\* created_at is Schedule's default, datetime.utcnow().
Return(c) ==
    /\ pc[c] = "loop" /\ RouteDone(c) /\ ti[c] = Len(trains_sorted[c])
    /\ \E now \in Clock, stored \in BOOLEAN :
          /\ returned' = [returned EXCEPT ![c] =
                AfterAudit([scenario_id |-> request[c].id, legs |-> legs[c],
                            objective |-> [total_delay_min |-> 0,
                                           throughput |-> Throughput(request[c].trains, legs[c])],
                            created_at |-> now], stored)]
          /\ audit_docs' = IF stored THEN Append(audit_docs, AuditEvent(c)) ELSE audit_docs
    /\ pc' = [pc EXCEPT ![c] = "done"]
    /\ UNCHANGED << section_docs, request, locals, raised, whatif, arg, ret >>

Step(c) == Begin(c) \/ NextTrain(c) \/ Leg(c) \/ UnknownSection(c) \/ Return(c)

\* One request.
Next == \E c \in {1} : Step(c)

Spec == Init /\ [][Next]_vars

\* Two requests carrying the same scenario, handled concurrently.
TwiceRoutes == { r \in Routes : r[1] \in { << >>, << "S1" >>, << "S1", "S2" >>,
                                           << "D4", "S1" >>, << "S1", "S9" >> } }
TwiceScenarios ==
    { sc \in Scenarios :
        /\ \A i \in 1..Len(sc.trains) :
              /\ sc.trains[i].planned_departure = 0
              /\ << sc.trains[i].route, sc.trains[i].max_speed_kmh >> \in TwiceRoutes
        /\ sc.overrides \in { EmptyDict,
                              FixedEnters(<< Entry("B", "S1", << "0", "7" >>) >>) } }

InitTwice ==
    /\ section_docs \in { << >>, StoredSections }
    /\ \E sc \in TwiceScenarios : request = [c \in Calls |-> sc]
    /\ InitCalls
    /\ arg = None /\ ret = None

NextTwice == \E c \in Calls : Step(c)

SpecTwice == InitTwice /\ [][NextTwice]_vars

\* ------------------------------------------------------------------ what_if
WhatIf(delay_train_id, delay_minutes) ==
    [delay_train_id |-> delay_train_id, delay_minutes |-> delay_minutes]

\* Bug variant: the test on t.id is missing, every train is delayed.
DelayedTrainsEvery(trains, delay_train_id, delay_minutes) ==
    IF delay_train_id = None \/ delay_minutes = 0 THEN trains
    ELSE [i \in 1..Len(trains) |->
            [trains[i] EXCEPT !.planned_departure = @ + delay_minutes]]

\* Lines 162-166: `if req.delay_train_id and req.delay_minutes` (None, "" and 0
\* are falsy), then the first train with that id is delayed and the loop ends.
DelayedTrains(trains, delay_train_id, delay_minutes) ==
    IF delay_train_id = None \/ delay_train_id = Some("") \/ delay_minutes = 0 THEN trains
    ELSE LET hits == { i \in 1..Len(trains) : trains[i].id = delay_train_id[1] }
         IN  IF hits = {} THEN trains
             ELSE LET first == CHOOSE i \in hits : \A j \in hits : i <= j
                  IN  [trains EXCEPT ![first].planned_departure = @ + delay_minutes]

\* Lines 161-166; generate_feasible_schedule(sc) follows on the same object.
ApplyDelay(c) ==
    /\ pc[c] = "whatif"
    /\ request' = [request EXCEPT ![c].trains =
                      DelayedTrains(request[c].trains, whatif[c][1].delay_train_id,
                                    whatif[c][1].delay_minutes)]
    /\ pc' = [pc EXCEPT ![c] = "idle"]
    /\ UNCHANGED << section_docs, locals, returned, raised, whatif, audit_docs, arg, ret >>

\* Lines 153-156: the delays a what_if request may carry.
WhatIfDelays ==
    { WhatIf(id, minutes) : id \in { None, Some("A"), Some("B"), Some("Z") },
                            minutes \in { 0, 15 } }

\* One request, to what_if or to optimize; request[2] is a second request with
\* the same body that is never handled.
InitWhatIf ==
    /\ section_docs \in { << >>, StoredSections }
    /\ \E sc \in TwiceScenarios : request = [c \in Calls |-> sc]
    /\ sections_map = [c \in Calls |-> EmptyDict]
    /\ trains_sorted = [c \in Calls |-> << >>]
    /\ fixed_enters = [c \in Calls |-> EmptyDict]
    /\ legs = [c \in Calls |-> << >>]
    /\ last_exit = [c \in Calls |-> EmptyDict]
    /\ ti = [c \in Calls |-> 0]
    /\ ri = [c \in Calls |-> 0]
    /\ current_time = [c \in Calls |-> 0]
    /\ returned = [c \in Calls |-> None]
    /\ raised = [c \in Calls |-> None]
    /\ \E w \in { None } \cup { Some(d) : d \in WhatIfDelays } :
          /\ whatif = [c \in Calls |-> IF c = 1 THEN w ELSE None]
          /\ pc = [c \in Calls |-> IF c = 1 /\ w # None THEN "whatif" ELSE "idle"]
    /\ audit_docs = << >>
    /\ arg = None /\ ret = None

NextWhatIf == \E c \in {1} : ApplyDelay(c) \/ Step(c)

SpecWhatIf == InitWhatIf /\ [][NextWhatIf]_vars

\* ------------------------------------------------- ids that contain "::"
\* Train.id and the section ids of an override entry are plain str fields
\* (schemas.py 21, 61); one request whose first train is named "A::S1".
KeyTrainIds == << "A::S1", "A" >>
KeyRoutes == { << >>, << "S2" >>, << "S1", "S2" >>, << "S1", "S9" >> }
KeyOverrides ==
    { EmptyDict,
      FixedEnters(<< Entry("A", "S1::S2", << "3", "0" >>) >>),
      FixedEnters(<< Entry("A::S1", "S2", << "3", "0" >>) >>),
      FixedEnters(<< Entry("A", "S2", << "0", "7" >>) >>) }

RECURSIVE KeyTrainLists(_)
KeyTrainLists(n) ==
    IF n = 0 THEN { << >> }
    ELSE { Append(q, Train(KeyTrainIds[n], p, None, d, r)) :
             q \in KeyTrainLists(n - 1), p \in Priorities, d \in Departures,
             r \in KeyRoutes }

KeyScenarios ==
    { [id |-> "sc", trains |-> trains, overrides |-> overrides] :
        trains \in KeyTrainLists(1) \cup KeyTrainLists(2),
        overrides \in KeyOverrides }

InitKeys ==
    /\ section_docs \in { << >>, StoredSections }
    /\ \E sc \in KeyScenarios : request = [c \in Calls |-> sc]
    /\ InitCalls
    /\ arg = None /\ ret = None

SpecKeys == InitKeys /\ [][Next]_vars

\* ------------------------------------------- the schedule of a call run alone
\* generate_feasible_schedule as a function of the scenario and the directory:
\* the loops of lines 69-92 from train t, route position r (0: before line 70).
RECURSIVE WalkFrom(_, _, _, _, _, _, _, _)
WalkFrom(sorted, fixed, map, t, r, now, out, last) ==
    IF t > Len(sorted) THEN [legs |-> out, failed |-> FALSE]
    ELSE IF r = 0
         THEN WalkFrom(sorted, fixed, map, t, 1, sorted[t].planned_departure, out, last)
    ELSE IF r > Len(sorted[t].route)
         THEN WalkFrom(sorted, fixed, map, t + 1, 0, now, out, last)
    ELSE LET sec_id == sorted[t].route[r]
             sec == SectionsGet(map, sec_id)
         IN  IF sec = None THEN [legs |-> out, failed |-> TRUE]
             ELSE LET leg == ScheduleLeg(sec[1], sec_id, sorted[t], fixed, now, last)
                  IN  WalkFrom(sorted, fixed, map, t, r + 1, leg.exit_time,
                               Append(out, leg), Put(last, sec_id, leg.exit_time))

RunAlone(scenario, map) ==
    WalkFrom(SortTrains(scenario.trains), parse_fixed_overrides(scenario.overrides),
             map, 1, 0, 0, << >>, EmptyDict)

\* --------------------------------------------- functions applied on their own
Idle ==
    /\ section_docs = << >>
    /\ request = [c \in Calls |-> [id |-> "sc", trains |-> << >>, overrides |-> EmptyDict]]
    /\ InitCalls

\* compute_run_time_minutes on a section and a train.
EstimatorSections ==
    { Section("S", length_km, TRUE, max_speed_kmh) :
        length_km \in 0..MaxLengthKm, max_speed_kmh \in { Kmh(10), Kmh(90), Kmh(110) } }
EstimatorTrains ==
    { Train("T", 5, max_speed_kmh, 0, << "S" >>) :
        max_speed_kmh \in { None, Some(0), Some(1), Some(Kmh(60)), Some(Kmh(200)),
                            Some(0 - Kmh(5)) } }

InitEstimate ==
    /\ Idle
    /\ arg \in { << section, train >> : section \in EstimatorSections, train \in EstimatorTrains }
    /\ ret = None

Estimate ==
    /\ ret = None
    /\ ret' = Some(compute_run_time_minutes(arg[1], arg[2]))
    /\ UNCHANGED << section_docs, request, pc, locals, returned, raised, whatif,
                    audit_docs, arg >>

SpecEstimate == InitEstimate /\ [][Estimate]_vars

\* parse_fixed_overrides on an overrides dict.
ParseEntries ==
    { Entry("A", "S1", << "3", "0" >>),
      Entry("B", "S2", << "0", "7" >>),
      Entry("A", "S2", << "3", "x" >>),
      [section_id |-> "S1", enter_time |-> << "0", "5" >>],
      [train_id |-> "B", section_id |-> "S1"] }

RECURSIVE SeqsUpTo(_, _)
SeqsUpTo(S, n) ==
    IF n = 0 THEN { << >> }
    ELSE LET shorter == SeqsUpTo(S, n - 1)
         IN  shorter \cup { Append(q, x) : q \in shorter, x \in S }

InitParse ==
    /\ Idle
    /\ arg \in { EmptyDict } \cup { FixedEnters(q) : q \in SeqsUpTo(ParseEntries, MaxEntries) }
    /\ ret = None

Parse ==
    /\ ret = None
    /\ ret' = Some(parse_fixed_overrides(arg))
    /\ UNCHANGED << section_docs, request, pc, locals, returned, raised, whatif,
                    audit_docs, arg >>

SpecParse == InitParse /\ [][Parse]_vars

\* ================================================================== claims
Finished(c) == pc[c] \in {"done", "failed"}
Legs(c) == returned[c][1].legs           \* the legs of the Schedule returned
TrainOf(c, id) ==
    request[c].trains[CHOOSE i \in 1..Len(request[c].trains) : request[c].trains[i].id = id]
SingleTrack(c, sec_id) == sections_map[c][sec_id].single_track
\* The legs before leg k that are on the same section as leg k.
PriorOn(L, k) == { j \in 1..(k - 1) : L[j].section_id = L[k].section_id }
MaxOf(S) == CHOOSE x \in S : \A y \in S : y <= x

\* C1: in a returned schedule, any two legs A (earlier) and B (later) on the
\* same single-track section satisfy B.enter_time >= A.exit_time + 5 minutes,
\* whether or not A is the leg immediately before B on that section.
C1_HeadwayAllPairs ==
    \A c \in Calls : pc[c] = "done" =>
        \A i, j \in 1..Len(Legs(c)) :
            /\ i < j
            /\ Legs(c)[i].section_id = Legs(c)[j].section_id
            /\ SingleTrack(c, Legs(c)[i].section_id)
            => Legs(c)[j].enter_time >= Legs(c)[i].exit_time + 5

\* A returned schedule with three legs on one single-track section, the last
\* of them carrying an override, so that a non-adjacent pair is compared.
C1_Witness ==
    \E c \in Calls : pc[c] = "done" /\
        \E i, j, k \in 1..Len(Legs(c)) :
            /\ i < j /\ j < k
            /\ Legs(c)[i].section_id = Legs(c)[k].section_id
            /\ Legs(c)[j].section_id = Legs(c)[k].section_id
            /\ SingleTrack(c, Legs(c)[k].section_id)
            /\ Key(Legs(c)[k].train_id, Legs(c)[k].section_id) \in DOMAIN fixed_enters[c]

\* C2: in a returned schedule, consecutive legs (l1, l2) of one train satisfy
\* l2.enter_time >= l1.exit_time, overrides included.
C2_ConsecutiveLegsOrdered ==
    \A c \in Calls : pc[c] = "done" =>
        \A k \in 1..(Len(Legs(c)) - 1) :
            Legs(c)[k].train_id = Legs(c)[k + 1].train_id
            => Legs(c)[k + 1].enter_time >= Legs(c)[k].exit_time

\* C3: every well-formed entry of fixed_enters, before or after a malformed
\* one, is present in the table parse_fixed_overrides returns.
C3_EveryWellFormedEntryKept ==
    (ret # None /\ "fixed_enters" \in DOMAIN arg) =>
        \A i \in 1..Len(arg.fixed_enters) :
            LET e == arg.fixed_enters[i]
            IN  (/\ DOMAIN e = {"train_id", "section_id", "enter_time"}
                 /\ Len(e.enter_time) = 2
                 /\ \A d \in 1..2 : e.enter_time[d] \in DOMAIN Digits)
                => /\ (e.train_id \o "::" \o e.section_id) \in DOMAIN ret[1]

\* Some route of the scenario names a section absent from the directory.
HasUnknownSection(c) ==
    \E i \in 1..Len(request[c].trains) :
        \E r \in 1..Len(request[c].trains[i].route) :
            request[c].trains[i].route[r] \notin DOMAIN sections_map[c]

\* C4: when a route names a section absent from the directory, the call returns
\* no Schedule at any point and ends by raising the 400 Unknown-section error.
C4_UnknownSectionFailsWhole ==
    \A c \in Calls : (pc[c] # "idle" /\ HasUnknownSection(c)) =>
        /\ returned[c] = None
        /\ pc[c] # "done"
        /\ pc[c] = "failed" => /\ raised[c] # None
                               /\ raised[c][1].status_code = 400

\* The call failed after a whole earlier train had been given its legs.
C4_Witness ==
    \E c \in Calls :
        /\ pc[c] = "failed" /\ ti[c] >= 2 /\ Len(legs[c]) >= 2
        /\ legs[c][1].train_id # trains_sorted[c][ti[c]].id
        /\ returned[c] = None /\ raised[c] # None

\* C5: the legs of one train are contiguous, and when train X has a higher
\* priority than Y, or the same priority and an earlier planned_departure,
\* every leg of X precedes every leg of Y.
C5_CommitmentOrder ==
    \A c \in Calls : pc[c] = "done" =>
        /\ \A i, j, k \in 1..Len(Legs(c)) :
              (i < j /\ j < k /\ Legs(c)[i].train_id = Legs(c)[k].train_id)
              => Legs(c)[j].train_id = Legs(c)[i].train_id
        /\ \A x, y \in 1..Len(request[c].trains) :
              LET X == request[c].trains[x]
                  Y == request[c].trains[y]
              IN  (\/ X.priority > Y.priority
                   \/ X.priority = Y.priority /\ X.planned_departure < Y.planned_departure)
                  => \A i, j \in 1..Len(Legs(c)) :
                        (Legs(c)[i].train_id = X.id /\ Legs(c)[j].train_id = Y.id) => i < j

\* Equal priorities, the train listed second departs earlier, and its legs
\* come first.
C5_Witness ==
    \E c \in Calls : pc[c] = "done" /\ Len(request[c].trains) = 2 /\
        LET X == request[c].trains[2]
            Y == request[c].trains[1]
        IN  /\ X.priority = Y.priority /\ X.planned_departure < Y.planned_departure
            /\ Len(Legs(c)) >= 3
            /\ Legs(c)[1].train_id = X.id
            /\ Legs(c)[Len(Legs(c))].train_id = Y.id

\* C6: a leg whose (train, section) has an override takes the override value as
\* its candidate, whatever planned_departure and the previous leg's exit are:
\* enter_time is the override value, or prior_exit + 5 when headway shifts it,
\* and is never earlier than the override value.
C6_OverrideIsCandidate ==
    \A c \in Calls : \A k \in 1..Len(legs[c]) :
        LET L == legs[c]
            key == Key(L[k].train_id, L[k].section_id)
            shifted == /\ SingleTrack(c, L[k].section_id)
                       /\ PriorOn(L, k) # {}
                       /\ fixed_enters[c][key] < L[MaxOf(PriorOn(L, k))].exit_time + 5
        IN  key \in DOMAIN fixed_enters[c] =>
               /\ L[k].enter_time >= fixed_enters[c][key]
               /\ L[k].enter_time =
                     IF shifted THEN L[MaxOf(PriorOn(L, k))].exit_time + 5
                     ELSE fixed_enters[c][key]

\* A second leg of a train entered at its override value, before the exit of
\* the train's first leg and away from planned_departure.
C6_Witness ==
    \E c \in Calls : \E k \in 2..Len(legs[c]) :
        LET key == Key(legs[c][k].train_id, legs[c][k].section_id)
        IN  /\ key \in DOMAIN fixed_enters[c]
            /\ legs[c][k - 1].train_id = legs[c][k].train_id
            /\ legs[c][k].enter_time = fixed_enters[c][key]
            /\ legs[c][k].enter_time < legs[c][k - 1].exit_time
            /\ legs[c][k].enter_time # TrainOf(c, legs[c][k].train_id).planned_departure

\* C7: every emitted leg lasts compute_run_time_minutes(section, train) minutes,
\* at least 1, headway shift or not.
C7_LegDuration ==
    \A c \in Calls : \A k \in 1..Len(legs[c]) :
        LET leg == legs[c][k]
        IN  /\ leg.exit_time - leg.enter_time =
                  compute_run_time_minutes(sections_map[c][leg.section_id],
                                           TrainOf(c, leg.train_id))
            /\ leg.exit_time - leg.enter_time >= 1
            /\ leg.enter_time <= leg.exit_time

\* The first leg of a train, without an override, shifted later than its
\* planned_departure by headway, on a train with its own speed limit.
C7_Witness ==
    \E c \in Calls : \E k \in 1..Len(legs[c]) :
        LET leg == legs[c][k]
            tr == TrainOf(c, leg.train_id)
        IN  /\ k > 1 /\ legs[c][k - 1].train_id # leg.train_id
            /\ Key(leg.train_id, leg.section_id) \notin DOMAIN fixed_enters[c]
            /\ leg.enter_time > tr.planned_departure
            /\ tr.max_speed_kmh # None
            /\ leg.exit_time - leg.enter_time = 10

\* Both calls ended, on the same scenario and the same section directory.
SameInputsBothEnded ==
    /\ Finished(1) /\ Finished(2)
    /\ request[1] = request[2]
    /\ sections_map[1] = sections_map[2]

\* C8 as stated: two runs on identical inputs return identical Schedules, no
\* field of which depends on the wall clock.
C8_IdenticalSchedule ==
    SameInputsBothEnded => (returned[1] = returned[2] /\ raised[1] = raised[2])

\* C8 amended: two runs on identical inputs end the same way, and when they
\* return, the Schedules have the same scenario_id, legs and objective;
\* created_at alone is read from the wall clock.
C8_IdenticalButCreatedAt ==
    SameInputsBothEnded =>
        /\ pc[1] = pc[2]
        /\ raised[1] = raised[2]
        /\ pc[1] = "done" =>
              /\ returned[1][1].scenario_id = returned[2][1].scenario_id
              /\ returned[1][1].legs = returned[2][1].legs
              /\ returned[1][1].objective = returned[2][1].objective

\* Both runs returned a schedule with a headway-shifted leg, at different
\* readings of the clock.
C8_Witness ==
    /\ SameInputsBothEnded /\ pc[1] = "done" /\ pc[2] = "done"
    /\ returned[1][1].created_at # returned[2][1].created_at
    /\ returned[1][1].legs = returned[2][1].legs
    /\ \E k \in 2..Len(Legs(1)) :
          /\ Legs(1)[k].section_id = Legs(1)[1].section_id
          /\ Legs(1)[k].enter_time = Legs(1)[1].exit_time + 5

\* C9: compute_run_time_minutes returns
\* max(1, floor(60 * length_km / max(effective_speed, 1))), where effective_speed
\* is min(section speed, train speed) whenever the train's speed is set (0 and
\* values below 1 included) and the section's speed when it is unset.
C9_RunTimeFormula ==
    ret # None =>
        LET section == arg[1]
            train == arg[2]
            effective_speed ==
                IF train.max_speed_kmh = None THEN section.max_speed_kmh
                ELSE Min(section.max_speed_kmh, train.max_speed_kmh[1])
        IN  /\ ret[1] = Max(1, (60 * section.length_km * 2) \div Max(effective_speed, 2))
            /\ ret[1] >= 1

\* C10: throughput is the number of trains whose last emitted leg is on the
\* last section of their route; a train with an empty route is not counted and
\* every train with a non-empty route is counted once.
C10_Throughput ==
    \A c \in Calls : pc[c] = "done" =>
        LET T == request[c].trains
            L == Legs(c)
            completed ==
                { i \in 1..Len(T) :
                    \E k \in 1..Len(L) :
                        /\ L[k].train_id = T[i].id
                        /\ \A m \in (k + 1)..Len(L) : L[m].train_id # T[i].id
                        /\ T[i].route # << >>
                        /\ L[k].section_id = T[i].route[Len(T[i].route)] }
        IN  /\ returned[c][1].objective.throughput = Cardinality(completed)
            /\ completed = { i \in 1..Len(T) : T[i].route # << >> }

\* One train with an empty route and one whose route repeats its last section.
C10_Witness ==
    \E c \in Calls : pc[c] = "done" /\ Len(request[c].trains) = 2 /\
        /\ \E i \in 1..2 : request[c].trains[i].route = << >>
        /\ \E i \in 1..2 : request[c].trains[i].route = << "S1", "S1" >>
        /\ returned[c][1].objective.throughput = 1


\* The scenario with delay_minutes added to the planned_departure of the train
\* named delay_train_id, and nothing else changed.
WithDelay(sc, w) ==
    [sc EXCEPT !.trains =
        [i \in 1..Len(sc.trains) |->
            IF w.delay_train_id = Some(sc.trains[i].id)
            THEN [sc.trains[i] EXCEPT !.planned_departure = @ + w.delay_minutes]
            ELSE sc.trains[i]]]

\* C11: what_if adds delay_minutes to the planned_departure of the named train
\* only, before scheduling, and returns the schedule generate_feasible_schedule
\* gives for the scenario changed that way.
C11_WhatIfDelaysOneTrain ==
    (whatif[1] # None /\ pc[1] # "whatif") =>
        LET expected == WithDelay(request[2], whatif[1][1])
            alone == RunAlone(expected, sections_map[1])
        IN  /\ request[1] = expected
            /\ Finished(1) => /\ legs[1] = alone.legs
                              /\ (pc[1] = "failed") = alone.failed
            /\ pc[1] = "done" => /\ returned[1] # None
                                 /\ returned[1][1].legs = alone.legs

\* Train A, listed first, is delayed by 15 minutes and so is scheduled after
\* train B of the same priority; both have legs.
C11_Witness ==
    /\ pc[1] = "done" /\ whatif[1] = Some(WhatIf(Some("A"), 15))
    /\ Len(request[1].trains) = 2
    /\ request[1].trains[1].planned_departure = 15
    /\ request[2].trains[1].planned_departure = 0
    /\ request[1].trains[2] = request[2].trains[2]
    /\ Len(Legs(1)) >= 2
    /\ Legs(1)[1].train_id = "B"
    /\ Legs(1)[Len(Legs(1))].train_id = "A"
    /\ Legs(1)[Len(Legs(1))].enter_time >= 15

\* C12: concurrent calls share no state; in any interleaving each call ends as
\* it does when run alone on its scenario and directory, with the same legs.
C12_CallsDoNotInterfere ==
    \A c \in Calls : Finished(c) =>
        LET alone == RunAlone(request[c], sections_map[c])
        IN  /\ legs[c] = alone.legs
            /\ (pc[c] = "failed") = alone.failed
            /\ pc[c] = "done" => /\ returned[c] # None
                                 /\ returned[c][1].legs = alone.legs

\* Call 1 returned a schedule with a headway-shifted leg while call 2 was in
\* the middle of its own loop with a different table of last exits.
C12_Witness ==
    /\ pc[1] = "done" /\ pc[2] = "loop"
    /\ Len(legs[2]) >= 1 /\ Len(legs[2]) < Len(legs[1])
    /\ last_exit[2] # last_exit[1]
    /\ \E k \in 2..Len(Legs(1)) :
          /\ Legs(1)[k].section_id = Legs(1)[1].section_id
          /\ Legs(1)[k].enter_time = Legs(1)[1].exit_time + 5

\* C13: a failure of the audit write or of a seeding write does not change the
\* result: the call returns the schedule of its scenario whether or not the
\* audit event was stored, and a call that found the section collection empty
\* uses the default sections whatever was stored of them.
C13_SinkFailuresSwallowed ==
    /\ pc[1] = "done" =>
          /\ returned[1] # None
          /\ returned[1][1].legs = RunAlone(request[1], sections_map[1]).legs
          /\ returned[1][1].scenario_id = request[1].id
    /\ (pc[1] \notin {"whatif", "idle"} /\ section_docs # StoredSections) =>
          /\ DOMAIN sections_map[1] = {"S1", "S2", "S3"}
          /\ \A i \in 1..3 : sections_map[1][DefaultSections[i].id] = DefaultSections[i]

\* A what_if call returned a schedule although its audit write raised and only
\* one of the three seeding writes was stored.
C13_Witness ==
    /\ pc[1] = "done" /\ whatif[1] # None
    /\ audit_docs = << >>
    /\ Len(section_docs) = 1
    /\ returned[1] # None /\ Len(Legs(1)) >= 2

\* The candidate enter time of leg k of L: the override for its (train,
\* section) when there is one, otherwise the exit of the same train's previous
\* leg, or the train's planned_departure on its first leg.
CandidateOf(c, L, k) ==
    LET key == Key(L[k].train_id, L[k].section_id)
        mine == { j \in 1..(k - 1) : L[j].train_id = L[k].train_id }
    IN  IF key \in DOMAIN fixed_enters[c] THEN fixed_enters[c][key]
        ELSE IF mine # {} THEN L[MaxOf(mine)].exit_time
        ELSE TrainOf(c, L[k].train_id).planned_departure

\* C14: every emitted leg enters at prior_exit + 5 when its section is
\* single-track, a prior exit is recorded for it and the candidate is earlier
\* than prior_exit + 5, and at its candidate otherwise; so never before the
\* candidate, and never shifted on a section that is not single-track.
C14_EnterTimeRule ==
    \A c \in Calls : \A k \in 1..Len(legs[c]) :
        LET L == legs[c]
            candidate == CandidateOf(c, L, k)
            prior == PriorOn(L, k)
            shifted == /\ SingleTrack(c, L[k].section_id)
                       /\ prior # {}
                       /\ candidate < L[MaxOf(prior)].exit_time + 5
        IN  /\ L[k].enter_time = IF shifted THEN L[MaxOf(prior)].exit_time + 5
                                 ELSE candidate
            /\ L[k].enter_time >= candidate
            /\ ~SingleTrack(c, L[k].section_id) => L[k].enter_time = candidate

\* A second leg on the double-track section D4 enters before the exit of the
\* first, and a leg on single-track S1 in the same schedule is shifted.
C14_Witness ==
    \E c \in Calls : pc[c] = "done" /\
        \E i, j, k \in 1..Len(legs[c]) :
            /\ i < j
            /\ legs[c][i].section_id = "D4" /\ legs[c][j].section_id = "D4"
            /\ ~SingleTrack(c, "D4") /\ "D4" \in DOMAIN last_exit[c]
            /\ legs[c][j].enter_time < legs[c][i].exit_time
            /\ SingleTrack(c, legs[c][k].section_id) /\ PriorOn(legs[c], k) # {}
            /\ legs[c][k].enter_time > CandidateOf(c, legs[c], k)

RECURSIVE SumRouteLengths(_)
SumRouteLengths(trains) ==
    IF trains = << >> THEN 0
    ELSE Len(Head(trains).route) + SumRouteLengths(Tail(trains))

\* The section ids of the legs of train id, in emission order.
SectionsOf(L, id) ==
    LET mine(l) == l.train_id = id
        own == SelectSeq(L, mine)
    IN  [k \in 1..Len(own) |-> own[k].section_id]

\* C15: a successful run emits one leg per (train, route position): as many
\* legs as the route lengths add up to, and each train's legs in emission
\* order list its route.
C15_OneLegPerRoutePosition ==
    \A c \in Calls : pc[c] = "done" =>
        /\ returned[c] # None
        /\ Len(Legs(c)) = SumRouteLengths(request[c].trains)
        /\ \A i \in 1..Len(request[c].trains) :
              SectionsOf(Legs(c), request[c].trains[i].id) = request[c].trains[i].route
        /\ ti[c] = Len(trains_sorted[c]) /\ RouteDone(c)

\* Two trains, one of which repeats a section on its route, four legs in all.
C15_Witness ==
    \E c \in Calls :
        /\ pc[c] = "done" /\ Len(request[c].trains) = 2
        /\ \E i \in 1..2 : request[c].trains[i].route = << "S1", "S1" >>
        /\ Len(Legs(c)) = 4

\* C16: generate_feasible_schedule leaves its input Scenario as it was: no
\* step of a call changes the order of scenario.trains, a train's fields or
\* scenario.overrides.
C16_ScenarioUnchanged == [][\A c \in Calls : request'[c] = request[c]]_vars

\* A call ended whose sorted order differs from the order of scenario.trains
\* and whose time propagation moved past the planned departures.
C16_Witness ==
    \E c \in Calls :
        /\ Finished(c)
        /\ trains_sorted[c] # request[c].trains
        /\ Len(legs[c]) >= 2
        /\ current_time[c] > request[c].trains[1].planned_departure
        /\ request[c].overrides # EmptyDict

\* C17: at every commit on a single-track section that has a last exit, the
\* new last exit is at least 6 minutes after the previous one, and the new leg
\* enters after the exit of every older leg on that section.
C17_LastExitIncreases ==
    [][\A c \in Calls : Len(legs'[c]) = Len(legs[c]) + 1 =>
          LET new == legs'[c][Len(legs'[c])]
              s == new.section_id
          IN  /\ last_exit'[c][s] = new.exit_time
              /\ (SingleTrack(c, s) /\ s \in DOMAIN last_exit[c]) =>
                    /\ last_exit'[c][s] >= last_exit[c][s] + 6
                    /\ \A j \in 1..Len(legs[c]) : legs[c][j].section_id = s =>
                          /\ new.enter_time >= legs[c][j].exit_time + 5
                          /\ legs[c][j].enter_time < new.enter_time]_vars

\* Three commits on one single-track section: the first of a train that repeats
\* the section on its route, the last carrying an override earlier than the
\* recorded last exit.
C17_Witness ==
    \E c \in Calls : \E i, j, k \in 1..Len(legs[c]) :
        LET L == legs[c]
        IN  /\ i < j /\ j < k
            /\ L[i].section_id = L[k].section_id /\ L[j].section_id = L[k].section_id
            /\ SingleTrack(c, L[k].section_id)
            /\ L[i].train_id = L[j].train_id
            /\ Key(L[k].train_id, L[k].section_id) \in DOMAIN fixed_enters[c]
            /\ fixed_enters[c][Key(L[k].train_id, L[k].section_id)] < L[j].exit_time
            /\ last_exit[c][L[k].section_id] = L[k].exit_time

\* The entries of scenario.overrides["fixed_enters"] that name exactly this
\* train and this section.
ExactEntries(sc, train_id, section_id) ==
    IF "fixed_enters" \notin DOMAIN sc.overrides THEN {}
    ELSE { i \in 1..Len(sc.overrides.fixed_enters) :
             LET e == sc.overrides.fixed_enters[i]
             IN  /\ "train_id" \in DOMAIN e /\ e.train_id = train_id
                 /\ "section_id" \in DOMAIN e /\ e.section_id = section_id }

\* C18: an override entry acts only on the legs of exactly its train on exactly
\* its section: a leg whose (train, section) pair no entry names takes its
\* candidate from the train's running time (the exit of its previous leg, or
\* its planned_departure), also when ids contain "::".
C18_OverrideOnlyExactPair ==
    \A c \in Calls : \A k \in 1..Len(legs[c]) :
        LET L == legs[c]
            mine == { j \in 1..(k - 1) : L[j].train_id = L[k].train_id }
            running == IF mine # {} THEN L[MaxOf(mine)].exit_time
                       ELSE TrainOf(c, L[k].train_id).planned_departure
            prior == PriorOn(L, k)
            shifted == /\ SingleTrack(c, L[k].section_id)
                       /\ prior # {}
                       /\ running < L[MaxOf(prior)].exit_time + 5
        IN  ExactEntries(request[c], L[k].train_id, L[k].section_id) = {} =>
               L[k].enter_time = IF shifted THEN L[MaxOf(prior)].exit_time + 5
                                 ELSE running

====
